---- MODULE Spec2Model ----
(***************************************************************************)
(* A model of ddsp/synths.py (Additive.get_controls) and of                *)
(* ddsp/training/model.py (Model).                                         *)
(*                                                                         *)
(* Tensors are functions from batch/frame positions to values.  A float    *)
(* that comes out of a division is a record: a reduced fraction, or one of *)
(* the IEEE results NaN, +Inf, -Inf of a division by zero.  Every other    *)
(* tensor value is an integer.                                             *)
(***************************************************************************)
EXTENDS Integers, Sequences, FiniteSets, TLC

VARIABLES
  \* ---- Additive (synths.py) ----
  synth,            \* the Additive object's fields read by get_controls
  nn_out,           \* the arguments of the last get_controls call
  controls,         \* the dictionary the last get_controls call returned
  \* ---- Model (training/model.py): the object's fields ----
  preprocessor, encoder, decoder, processor_group, losses, tb_metrics,
  \* ---- the process-wide state the Model reads and writes ----
  global_step,      \* tf.train.get_or_create_global_step()
  all_trainables,   \* tf.trainable_variables(): the global registry
  params,           \* the session's value of every variable
  loads,            \* init_from_checkpoint calls made, per pretrained model
  \* ---- the last call on the Model ----
  ret               \* what was called, on what, what it returned or raised

synthVars == <<synth, nn_out, controls>>
fieldVars == <<preprocessor, encoder, decoder, processor_group, losses>>
envVars   == <<global_step, all_trainables, params, loads>>
vars      == <<synthVars, fieldVars, tb_metrics, envVars, ret>>

None == "None"

\* The empty Python dict.
EmptyDict == [k \in {} |-> 0]

\* d[k] = v
DictSet(d, k, v) == [x \in DOMAIN d \cup {k} |-> IF x = k THEN v ELSE d[x]]

\* d.update(e)
DictUpdate(d, e) ==
  [x \in DOMAIN d \cup DOMAIN e |-> IF x \in DOMAIN e THEN e[x] ELSE d[x]]

(***************************************************************************)
(* Bounds.                                                                 *)
(***************************************************************************)
MaxFrames == 1     \* batch/frame positions of a get_controls call
NHarm     == 2     \* harmonics of the distribution handed to get_controls

(***************************************************************************)
(* Float arithmetic of the normalisation.                                  *)
(***************************************************************************)
Abs(x) == IF x < 0 THEN -x ELSE x

RECURSIVE Gcd(_, _)
Gcd(a, b) == IF b = 0 THEN a ELSE Gcd(b, a % b)

NaN    == [cls |-> "nan",  n |-> 0, d |-> 0]
PosInf == [cls |-> "inf",  n |-> 1, d |-> 0]
NegInf == [cls |-> "-inf", n |-> -1, d |-> 0]

\* The fraction a/b, b # 0, reduced and with a positive denominator.
Frac(a, b) ==
  LET g == Gcd(Abs(a), Abs(b))
      s == IF b < 0 THEN -1 ELSE 1
  IN  [cls |-> "finite", n |-> (s * a) \div g, d |-> (s * b) \div g]

\* a / b on floats: x/0 is NaN for x = 0 and an infinity otherwise.
FDiv(a, b) ==
  IF b # 0 THEN Frac(a, b)
  ELSE IF a = 0 THEN NaN
  ELSE IF a > 0 THEN PosInf ELSE NegInf

IsFinite(x) == x.cls = "finite"

\* x + y on floats; only finite operands are ever added by the properties.
FAdd(x, y) ==
  IF IsFinite(x) /\ IsFinite(y)
  THEN Frac(x.n * y.d + y.n * x.d, x.d * y.d)
  ELSE NaN

(***************************************************************************)
(* ddsp.core helpers called by get_controls.                               *)
(***************************************************************************)
\* core.exp_sigmoid: maps any raw value to a strictly positive one, monotonically.
ExpSigmoid(x) == IF x < 0 THEN 1 ELSE x + 2

\* amp_scale_fn applied elementwise to a [position -> value] tensor.
ScaleAmp(fn, t) == [p \in DOMAIN t |-> IF fn = None THEN t[p] ELSE ExpSigmoid(t[p])]

\* amp_scale_fn applied elementwise to a [position -> [harmonic -> value]] tensor.
ScaleDist(fn, t) ==
  [p \in DOMAIN t |->
     [k \in DOMAIN t[p] |-> IF fn = None THEN t[p][k] ELSE ExpSigmoid(t[p][k])]]

\* core.get_harmonic_frequencies: f0_hz times the harmonic index 1..n.
GetHarmonicFrequencies(f0_hz, n_harmonics) ==
  [p \in DOMAIN f0_hz |-> [k \in 1..n_harmonics |-> f0_hz[p] * k]]

\* core.remove_above_nyquist: zero every entry whose frequency exceeds
\* sample_rate / 2.
RemoveAboveNyquist(frequencies, amplitudes, sample_rate) ==
  [p \in DOMAIN amplitudes |->
     [k \in DOMAIN amplitudes[p] |->
        IF 2 * frequencies[p][k] > sample_rate THEN 0 ELSE amplitudes[p][k]]]

RECURSIVE SumTo(_, _)
SumTo(row, k) == IF k = 0 THEN 0 ELSE SumTo(row, k - 1) + row[k]

\* tf.reduce_sum(t, axis=-1, keepdims=True)
ReduceSum(t) == [p \in DOMAIN t |-> SumTo(t[p], Len(t[p]))]

(***************************************************************************)
(* Additive.get_controls                                                   *)
(***************************************************************************)
\* Lines 62-67: scale both tensors, or pass them through.
Scaled(self, nn_out_amplitudes, nn_out_harmonic_distribution) ==
  [amplitudes            |-> ScaleAmp(self.amp_scale_fn, nn_out_amplitudes),
   harmonic_distribution |-> ScaleDist(self.amp_scale_fn, nn_out_harmonic_distribution)]

\* Lines 70-76: bandlimit the harmonic distribution.
Bandlimited(self, harmonic_distribution, f0_hz) ==
  IF self.normalize_below_nyquist
  THEN LET n_harmonics == Len(harmonic_distribution[1])
           harmonic_frequencies == GetHarmonicFrequencies(f0_hz, n_harmonics)
       IN  RemoveAboveNyquist(harmonic_frequencies, harmonic_distribution,
                              self.sample_rate)
  ELSE harmonic_distribution

\* A plausible slip: guarding the division with an epsilon added to every sum.
NormalizeEps(harmonic_distribution) ==
  LET total == ReduceSum(harmonic_distribution)
  IN  [p \in DOMAIN harmonic_distribution |->
         [k \in DOMAIN harmonic_distribution[p] |->
            FDiv(harmonic_distribution[p][k], total[p] + 1)]]

\* Lines 79-81: harmonic_distribution /= reduce_sum(harmonic_distribution).
Normalize(harmonic_distribution) ==
  LET total == ReduceSum(harmonic_distribution)
  IN  [p \in DOMAIN harmonic_distribution |->
         [k \in DOMAIN harmonic_distribution[p] |->
            FDiv(harmonic_distribution[p][k], total[p])]]

GetControls(self, nn_out_amplitudes, nn_out_harmonic_distribution, f0_hz) ==
  LET s  == Scaled(self, nn_out_amplitudes, nn_out_harmonic_distribution)
      hd == Bandlimited(self, s.harmonic_distribution, f0_hz)
  IN  [amplitudes            |-> s.amplitudes,
       harmonic_distribution |-> Normalize(hd),
       f0_hz                 |-> f0_hz]

(***************************************************************************)
(* The inputs a get_controls call is given.                                *)
(***************************************************************************)
Frames    == 1..MaxFrames
RawVals   == {-1, 0, 1}            \* raw network outputs
F0Vals    == {1, 3, 5}             \* fundamentals, in hertz
SampleRates == {8}                 \* so that half the sample rate is 4 Hz

AmpTensors  == [Frames -> RawVals]
DistTensors == [Frames -> [1..NHarm -> RawVals]]
F0Tensors   == [Frames -> F0Vals]

\* An Additive synthesizer of any configuration, and the arguments its
\* get_controls is about to be called with.
InitSynth ==
  /\ synth \in [sample_rate : SampleRates,
                amp_scale_fn : {None, "exp_sigmoid"},
                normalize_below_nyquist : BOOLEAN]
  /\ \E a \in AmpTensors, h \in DistTensors, f \in F0Tensors :
       nn_out = [called |-> FALSE, amplitudes |-> a,
                 harmonic_distribution |-> h, f0_hz |-> f]
  /\ controls = EmptyDict

\* The call of Additive.get_controls on those arguments.
CallGetControls ==
  /\ ~nn_out.called
  /\ nn_out' = [nn_out EXCEPT !.called = TRUE]
  /\ controls' = GetControls(synth, nn_out.amplitudes,
                             nn_out.harmonic_distribution, nn_out.f0_hz)
  /\ UNCHANGED <<synth, fieldVars, tb_metrics, envVars, ret>>

(***************************************************************************)
(* Model: the collaborators it is composed of.  Each is an opaque callable *)
(* of the repository; what is modelled is its contract, with functions     *)
(* that differ from each other so that the data flow can be told apart.    *)
(***************************************************************************)
MaxAudio  == 1     \* target audio values are 0..MaxAudio
MaxLosses == 2     \* longest configured loss list

\* preprocessor(features, is_training): a modified copy of features.  The
\* default one keeps the audio; the custom one rescales it and augments the
\* conditioning while training.
Preprocess(p, features, is_training) ==
  IF p = "DefaultPreprocessor"
  THEN [audio |-> features.audio, z |-> features.f0_hz]
  ELSE [audio |-> features.audio + 1,
        z     |-> features.f0_hz + (IF is_training THEN 1 ELSE 0)]

\* encoder(conditioning), decoder(conditioning)
Encode(conditioning) == [conditioning EXCEPT !.z = 2 * @ + 1]
Decode(conditioning) == [conditioning EXCEPT !.z = @ + 2]

\* The processor groups a Model may be given: the name of the group and the
\* names of the processors whose entries its get_outputs also writes.
PGName(pg)   == IF pg = "pgA" THEN "processor_group" ELSE "pg"
PGOthers(pg) == IF pg = "pgA" THEN {"additive"} ELSE {"losses/a"}

\* processor_group.get_outputs(conditioning): one entry per processor, each
\* with a 'signal'; the group's own entry holds the final audio.
PGGetOutputs(pg, conditioning) ==
  [k \in {PGName(pg)} \cup PGOthers(pg) |->
     [signal |-> IF k = PGName(pg) THEN conditioning.z ELSE conditioning.z + 1]]

\* loss_obj(target_audio, audio_gen): a scalar.
LossCall(loss_obj, target, audio) == loss_obj.w * Abs(target - audio) + loss_obj.w

\* ddsp.losses.SpectralLoss(): the default loss.
SpectralLoss == [name |-> "spectral_loss", w |-> 1, pretrained_model |-> None]

\* The loss objects a Model may be configured with.  Two carry the same name,
\* two share one pretrained model.
LossObjs ==
  { [name |-> "a", w |-> 1, pretrained_model |-> None],
    [name |-> "a", w |-> 2, pretrained_model |-> "crepe"],
    [name |-> "b", w |-> 3, pretrained_model |-> "crepe"] }

PretrainedModels == {"crepe", "vgg"}

\* Sequences over S of length 0..n.
SeqsUpTo(S, n) == UNION { [1..k -> S] : k \in 0..n }

\* The losses argument of the constructor: None, one loss object, or a list.
LossArgs ==
  {[kind |-> "none", v |-> <<>>]}
  \cup { [kind |-> "one", v |-> <<l>>] : l \in LossObjs }
  \cup { [kind |-> "list", v |-> ls] : ls \in SeqsUpTo(LossObjs, MaxLosses) }

\* core.make_iterable: a lone object becomes a one-element list.
MakeIterable(arg) == arg.v

(***************************************************************************)
(* Model.__init__                                                          *)
(***************************************************************************)
\* Line 48: preprocessor or DefaultPreprocessor().
PreprocessorOrDefault(p) == IF p = None THEN "DefaultPreprocessor" ELSE p

\* Lines 52-53: losses or [SpectralLoss()], made iterable.  None and the
\* empty list are both falsy.
LossesOrDefault(arg) ==
  IF arg.kind = "none" \/ (arg.kind = "list" /\ arg.v = <<>>)
  THEN <<SpectralLoss>>
  ELSE MakeIterable(arg)

Construct(p, e, d, pg, ls) ==
  /\ preprocessor = PreprocessorOrDefault(p)
  /\ encoder = e
  /\ decoder = d
  /\ processor_group = pg
  /\ losses = LossesOrDefault(ls)
  /\ tb_metrics = EmptyDict

\* The Model object, as the methods read it.
Self ==
  [preprocessor |-> preprocessor, encoder |-> encoder, decoder |-> decoder,
   processor_group |-> processor_group, losses |-> losses]

(***************************************************************************)
(* Model.add_tb_metric                                                     *)
(***************************************************************************)
\* A plausible slip: a fresh registry holding only the metric just added.
AddTbMetricFresh(tb, name, tensor) == DictSet(EmptyDict, name, <<tensor>>)

\* Lines 141-143: the mean of a scalar is the scalar; expand_dims makes it a
\* vector of one element; the registry entry of that name is (over)written.
AddTbMetric(tb, name, tensor) == DictSet(tb, name, <<tensor>>)

(***************************************************************************)
(* Model.get_outputs.  Each step takes and returns the running state       *)
(* [conditioning, calls]: calls is the log of the collaborator calls made, *)
(* each with its argument and its result.                                  *)
(***************************************************************************)
Logged(stage, arg, res) == [stage |-> stage, arg |-> arg, res |-> res]

\* Line 63.
PreprocessorStage(self, features, is_training) ==
  LET c == Preprocess(self.preprocessor, features, is_training)
  IN  [conditioning |-> c,
       calls |-> <<Logged("preprocessor",
                          [features |-> features, is_training |-> is_training], c)>>]

\* A plausible slip: the encoder is never run.
EncoderStageSkipped(self, st) == st

\* Lines 66-68.
EncoderStage(self, st) ==
  IF self.encoder # None
  THEN LET c == Encode(st.conditioning)
       IN  [conditioning |-> c,
            calls |-> Append(st.calls, Logged("encoder", st.conditioning, c))]
  ELSE st

\* Lines 71-72, for a decoder that is not None.
DecoderStage(self, st) ==
  LET c == Decode(st.conditioning)
  IN  [conditioning |-> c,
       calls |-> Append(st.calls, Logged("decoder", st.conditioning, c))]

\* A plausible slip: the losses are given the preprocessed audio.
LossTargetConditioned(features, conditioning) == conditioning.audio

\* Line 84: the target of every loss is features['audio'].
LossTarget(features, conditioning) == features.audio

\* 'losses/{}'.format(loss_obj.name)
LossName(loss_obj) == "losses/" \o loss_obj.name

\* Lines 83-88: the loop over self.losses, from loss i on.  acc is
\* [total_loss, loss_dict, tb_metrics, calls].
RECURSIVE LossLoop(_, _, _, _, _)
LossLoop(ls, target, audio_gen, i, acc) ==
  IF i > Len(ls) THEN acc
  ELSE LET loss_obj  == ls[i]
           loss_term == LossCall(loss_obj, target, audio_gen)
           loss_name == LossName(loss_obj)
       IN  LossLoop(ls, target, audio_gen, i + 1,
             [total_loss |-> acc.total_loss + loss_term,
              loss_dict  |-> DictSet(acc.loss_dict, loss_name, loss_term),
              tb_metrics |-> AddTbMetric(acc.tb_metrics, loss_name, loss_term),
              calls      |-> acc.calls \o
                 << Logged("loss", [target |-> target, audio |-> audio_gen],
                           [v |-> loss_term]),
                    Logged("add_tb_metric", [name |-> loss_name], [v |-> loss_term]) >>])

\* What a call leaves behind when it raises: nothing is returned and the
\* registry is as it was.
Raised(kind, tb, calls) ==
  [err |-> kind, outputs |-> EmptyDict, tb_metrics |-> tb, calls |-> calls]

\* The caller's features mapping as a call leaves it: get_outputs hands it to
\* the preprocessor, which copies it, and reads features['audio'].
FeaturesAfter(features) == features

\* Lines 75-96, for a processor_group that is not None.
SynthesizerAndLosses(self, tb, gs, features, st) ==
  LET pg        == self.processor_group
      outputs0  == PGGetOutputs(pg, st.conditioning)
      audio_gen == outputs0[PGName(pg)].signal
      outputs1  == DictSet(outputs0, "audio_gen", audio_gen)
      calls1    == Append(st.calls,
                     Logged("processor_group", st.conditioning, [v |-> audio_gen]))
      loop      == LossLoop(self.losses, LossTarget(features, st.conditioning),
                            audio_gen, 1,
                            [total_loss |-> 0, loss_dict |-> EmptyDict,
                             tb_metrics |-> tb, calls |-> calls1])
      tb1       == AddTbMetric(loop.tb_metrics, "loss", loop.total_loss)
      tb2       == AddTbMetric(tb1, "global_step", gs)
      calls2    == loop.calls \o
                     << Logged("add_tb_metric", [name |-> "loss"],
                               [v |-> loop.total_loss]),
                        Logged("add_tb_metric", [name |-> "global_step"], [v |-> gs]) >>
      outputs2  == DictUpdate(outputs1, loop.loss_dict)
      outputs3  == DictSet(outputs2, "total_loss", loop.total_loss)
  IN  [err |-> None, outputs |-> outputs3, tb_metrics |-> tb2, calls |-> calls2]

\* get_outputs(features, is_training) on the Model self, with the registry tb
\* and the global step gs: [err, outputs, tb_metrics, calls].  Calling a
\* decoder that is None raises TypeError; reading get_outputs of a
\* processor_group that is None raises AttributeError.
GetOutputs(self, tb, gs, features, is_training) ==
  LET st1 == EncoderStage(self, PreprocessorStage(self, features, is_training))
  IN  IF self.decoder = None THEN Raised("TypeError", tb, st1.calls)
      ELSE LET st2 == DecoderStage(self, st1)
           IN  IF self.processor_group = None
               THEN Raised("AttributeError", tb, st2.calls)
               ELSE SynthesizerAndLosses(self, tb, gs, features, st2)

(***************************************************************************)
(* Variables, pretrained models, checkpoints.                              *)
(***************************************************************************)
MaxLoads == 2      \* init_from_checkpoint calls followed per pretrained model

\* Variable objects.  Names are unique within one graph's registry; V3 is a
\* variable of the pretrained model crepe that carries the name of V1.
V1 == [id |-> 1, name |-> "decoder/w"]
V2 == [id |-> 2, name |-> "crepe/w"]
V3 == [id |-> 3, name |-> "decoder/w"]
Variables == {V1, V2, V3}

\* The registries tf.trainable_variables() may hold once the graph is built:
\* non-empty, and no two variables of one registry share a name.
Registries == { <<V1>>, <<V2>>, <<V3>>, <<V1, V2>>, <<V2, V3>> }

\* pretrained_model.trainable_variables()
TrainableVariablesOf(m) == IF m = "crepe" THEN <<V2, V3>> ELSE <<>>

\* Whether variable x belongs to pretrained model m.
BelongsTo(x, m) ==
  \E i \in 1..Len(TrainableVariablesOf(m)) : TrainableVariablesOf(m)[i] = x

\* Lines 99-105: the pretrained_model of every loss that has one, in order
\* and with repetitions.
RECURSIVE PretrainedModelsFrom(_, _)
PretrainedModelsFrom(ls, i) ==
  IF i > Len(ls) THEN <<>>
  ELSE LET m == ls[i].pretrained_model
       IN  (IF m # None THEN <<m>> ELSE <<>>) \o PretrainedModelsFrom(ls, i + 1)

pretrained_models(self) == PretrainedModelsFrom(self.losses, 1)

\* Lines 123-125.
RECURSIVE VarsToFreeze(_, _)
VarsToFreeze(ms, i) ==
  IF i > Len(ms) THEN <<>>
  ELSE TrainableVariablesOf(ms[i]) \o VarsToFreeze(ms, i + 1)

\* Line 126.
VarNamesToFreeze(self) ==
  LET vs == VarsToFreeze(pretrained_models(self), 1)
  IN  { vs[i].name : i \in 1..Len(vs) }

\* Lines 128-137: the registry's variables whose name is not frozen, in order.
RECURSIVE KeepUnfrozen(_, _, _)
KeepUnfrozen(all, names, i) ==
  IF i > Len(all) THEN <<>>
  ELSE (IF all[i].name \notin names THEN <<all[i]>> ELSE <<>>)
       \o KeepUnfrozen(all, names, i + 1)

GetVariablesToOptimize(self, registry) ==
  KeepUnfrozen(registry, VarNamesToFreeze(self), 1)

\* Lines 113-114: one init_from_checkpoint call per entry of pretrained_models.
RECURSIVE LoadAll(_, _, _)
LoadAll(ms, i, ld) ==
  IF i > Len(ms) THEN ld
  ELSE LoadAll(ms, i + 1, [ld EXCEPT ![ms[i]] = @ + 1])

\* Checkpoint directories as the caller names them.
CheckpointDirs == {"~/ckpt", "$RUN/ckpt", "/empty"}

\* os.path.expandvars, os.path.expanduser
ExpandVars(path) == IF path = "$RUN/ckpt" THEN "/data/run/ckpt" ELSE path
ExpandUser(path) == IF path = "~/ckpt" THEN "/home/user/ckpt" ELSE path

\* The checkpoints each directory holds, oldest first.  A checkpoint is its
\* stamp; it holds the stamp as the value of every variable.
CheckpointsIn(path) ==
  IF path = "/home/user/ckpt" THEN <<1, 2>>
  ELSE IF path = "/data/run/ckpt" THEN <<3>>
  ELSE <<>>

NoCheckpoint == 0

\* tf.train.latest_checkpoint: the most recent checkpoint, or none.
LatestCheckpoint(path) ==
  LET cs == CheckpointsIn(path)
  IN  IF cs = <<>> THEN NoCheckpoint ELSE cs[Len(cs)]

\* Lines 178-183: [err, params].  Saver raises ValueError for an empty
\* var_list; saver.restore raises ValueError for a checkpoint that is None,
\* before it loads anything.
Restore(self, registry, ps, checkpoint_dir) ==
  LET trainable_variables == GetVariablesToOptimize(self, registry)
      ids == { trainable_variables[i].id : i \in 1..Len(trainable_variables) }
      checkpoint_path == ExpandUser(ExpandVars(checkpoint_dir))
      checkpoint == LatestCheckpoint(checkpoint_path)
  IN  IF trainable_variables = <<>> THEN [err |-> "ValueError", params |-> ps]
      ELSE IF checkpoint = NoCheckpoint THEN [err |-> "ValueError", params |-> ps]
      ELSE [err |-> None,
            params |-> [v \in DOMAIN ps |-> IF v \in ids THEN checkpoint ELSE ps[v]]]

(***************************************************************************)
(* States and actions.                                                     *)
(***************************************************************************)
Features == [audio : 0..MaxAudio, f0_hz : {1, 2}]

\* The global step when the graph is built: a fresh run, or a resumed one.
GlobalSteps == {0, 100}

NoRet == [op |-> "init", args |-> <<>>, err |-> None, value |-> <<>>, calls |-> <<>>]

SynthIdle ==
  /\ synth = [sample_rate |-> 8, amp_scale_fn |-> "exp_sigmoid",
              normalize_below_nyquist |-> TRUE]
  /\ nn_out = [called |-> FALSE]
  /\ controls = EmptyDict

EnvInit(registry) ==
  /\ all_trainables = registry
  /\ params = [v \in {x.id : x \in Variables} |-> 0]
  /\ loads = [m \in PretrainedModels |-> 0]
  /\ ret = NoRet

\* A Model of any composition, over a fixed registry.
InitOutputs ==
  /\ \E p \in {None, "CustomPreprocessor"}, e \in {None, "encoder"},
        d \in {None, "decoder"}, pg \in {None, "pgA", "pgB"}, ls \in LossArgs :
       Construct(p, e, d, pg, ls)
  /\ global_step \in GlobalSteps
  /\ EnvInit(<<V1, V2>>)
  /\ SynthIdle

\* A complete Model with any losses, over any registry.
InitTraining ==
  /\ \E ls \in LossArgs : Construct(None, "encoder", "decoder", "pgA", ls)
  /\ global_step = 0
  /\ \E registry \in Registries : EnvInit(registry)
  /\ SynthIdle

\* An Additive synthesizer of any configuration, beside a default Model.
InitControls ==
  /\ InitSynth
  /\ Construct(None, None, "decoder", "pgA", [kind |-> "none", v |-> <<>>])
  /\ global_step = 0
  /\ EnvInit(<<V1, V2>>)

\* model.get_outputs(features, is_training)
CallGetOutputs ==
  \E f \in Features, t \in BOOLEAN :
    LET r == GetOutputs(Self, tb_metrics, global_step, f, t)
    IN  /\ tb_metrics' = r.tb_metrics
        /\ ret' = [op |-> "get_outputs",
                   args |-> [features |-> f, is_training |-> t,
                             features_after |-> FeaturesAfter(f)],
                   err |-> r.err, value |-> r.outputs, calls |-> r.calls]
        /\ UNCHANGED <<synthVars, fieldVars, envVars>>

\* model(features): lines 56-57, get_outputs with is_training left at True.
CallModel ==
  \E f \in Features :
    LET r == GetOutputs(Self, tb_metrics, global_step, f, TRUE)
    IN  /\ tb_metrics' = r.tb_metrics
        /\ ret' = [op |-> "__call__",
                   args |-> [features |-> f, is_training |-> TRUE,
                             features_after |-> FeaturesAfter(f)],
                   err |-> r.err, value |-> r.outputs, calls |-> r.calls]
        /\ UNCHANGED <<synthVars, fieldVars, envVars>>

\* model.get_variables_to_optimize()
CallGetVariablesToOptimize ==
  /\ ret' = [op |-> "get_variables_to_optimize", args |-> <<>>, err |-> None,
             value |-> GetVariablesToOptimize(Self, all_trainables),
             calls |-> <<>>]
  /\ UNCHANGED <<synthVars, fieldVars, tb_metrics, envVars>>

\* One invocation of the scaffold_fn that get_scaffold_fn returned.
CallScaffoldFn ==
  LET ld == LoadAll(pretrained_models(Self), 1, loads)
  IN  /\ \A m \in PretrainedModels : ld[m] <= MaxLoads
      /\ loads' = ld
      /\ ret' = [op |-> "scaffold_fn", args |-> <<>>, err |-> None,
                 value |-> <<"Scaffold">>, calls |-> <<>>]
      /\ UNCHANGED <<synthVars, fieldVars, tb_metrics, global_step,
                     all_trainables, params>>

\* model.restore(sess, checkpoint_dir)
CallRestore ==
  \E dir \in CheckpointDirs :
    LET r == Restore(Self, all_trainables, params, dir)
    IN  /\ params' = r.params
        /\ ret' = [op |-> "restore", args |-> [checkpoint_dir |-> dir],
                   err |-> r.err, value |-> <<>>, calls |-> <<>>]
        /\ UNCHANGED <<synthVars, fieldVars, tb_metrics, global_step,
                       all_trainables, loads>>

\* The model_fn that get_model_fn returned, lines 152-166: the outputs, the
\* scaffold_fn (made, not invoked) and the variables to optimize are handed
\* to train_util.get_estimator_spec.
CallModelFn ==
  \E f \in Features :
    LET r == GetOutputs(Self, tb_metrics, global_step, f, TRUE)
    IN  /\ tb_metrics' = r.tb_metrics
        /\ ret' = [op |-> "model_fn",
                   args |-> [features |-> f, is_training |-> TRUE,
                             features_after |-> FeaturesAfter(f)],
                   err |-> r.err,
                   value |-> IF r.err # None THEN <<>>
                             ELSE [loss |-> r.outputs["total_loss"],
                                   scaffold_fn |-> "scaffold_fn",
                                   variables_to_optimize |->
                                     GetVariablesToOptimize(Self, all_trainables),
                                   host_call |-> r.tb_metrics],
                   calls |-> r.calls]
        /\ UNCHANGED <<synthVars, fieldVars, envVars>>

NextOutputs == CallGetOutputs \/ CallModel

NextTraining ==
  CallGetVariablesToOptimize \/ CallScaffoldFn \/ CallRestore \/ CallModelFn

NextControls == CallGetControls

SpecOutputs  == InitOutputs /\ [][NextOutputs]_vars
SpecTraining == InitTraining /\ [][NextTraining]_vars
SpecControls == InitControls /\ [][NextControls]_vars

(***************************************************************************)
(* Properties of Model.get_outputs, under SpecOutputs.                     *)
(***************************************************************************)
\* The last call was get_outputs, directly or through __call__ or model_fn.
IsGetOutputs == ret.op \in {"get_outputs", "__call__", "model_fn"}
Returned     == IsGetOutputs /\ ret.err = None

\* The conditioning the decoder's result must be, from the contract of each
\* stage: preprocessor, then the encoder if there is one, then the decoder.
ExpectedPre == Preprocess(preprocessor, ret.args.features, ret.args.is_training)
ExpectedEnc == IF encoder # None THEN Encode(ExpectedPre) ELSE ExpectedPre
ExpectedDec == Decode(ExpectedEnc)
ExpectedAudioGen ==
  PGGetOutputs(processor_group, ExpectedDec)[PGName(processor_group)].signal

\* 0 + L1 + ... + Ln, left to right, each on (target, audio).
RECURSIVE SumOfLosses(_, _, _)
SumOfLosses(n, target, audio) ==
  IF n = 0 THEN 0
  ELSE SumOfLosses(n - 1, target, audio) + LossCall(losses[n], target, audio)

\* C1: a get_outputs call that returns gives outputs['audio_gen'] equal to the
\* 'signal' of the processor group's own entry, and outputs['total_loss'] equal
\* to the sum, from 0 and in declaration order, of each loss on
\* (features['audio'], audio_gen), features being the raw input.
C1_AudioGenAndTotalLoss ==
  Returned =>
    /\ ret.value["audio_gen"] = ExpectedAudioGen
    /\ ret.value["total_loss"] =
         SumOfLosses(Len(losses), ret.args.features.audio, ExpectedAudioGen)

\* C1's case: two losses, and a preprocessor whose copy of the audio differs
\* from the raw audio.
C1_Witness ==
  /\ Returned
  /\ Len(losses) = 2
  /\ ExpectedPre.audio # ret.args.features.audio
  /\ ret.value["total_loss"] > 0

\* C2: the returned dictionary has 'audio_gen', 'total_loss' and, for every
\* configured loss, an entry 'losses/<name>' holding that loss's own term,
\* whatever the names of the losses.
C2_EntryPerLoss ==
  Returned =>
    /\ {"audio_gen", "total_loss"} \subseteq DOMAIN ret.value
    /\ \A i \in 1..Len(losses) :
         /\ LossName(losses[i]) \in DOMAIN ret.value
         /\ ret.value[LossName(losses[i])] =
              LossCall(losses[i], ret.args.features.audio, ExpectedAudioGen)

\* C7: a Model without a decoder or without a processor_group fails with
\* MisconfiguredModelError and returns nothing, before the processor group,
\* a loss or a metric registration runs.
C7_Misconfigured ==
  (IsGetOutputs /\ (decoder = None \/ processor_group = None)) =>
    /\ ret.err = "MisconfiguredModelError"
    /\ ret.value = EmptyDict
    /\ \A i \in 1..Len(ret.calls) :
         ret.calls[i].stage \notin {"processor_group", "loss", "add_tb_metric"}

\* The position of the decoder's call in the log.
DecAt == IF encoder # None THEN 3 ELSE 2

\* C9: in a get_outputs call that returns, the collaborators are called once
\* each and in this order: the preprocessor on (features, is_training); the
\* encoder, if there is one, on the preprocessor's result; the decoder on the
\* result of that; the processor group on the decoder's result; each loss in
\* declaration order (its metric registered right after it) on the audio the
\* processor group produced; then the metrics 'loss' and 'global_step'.
C9_StageOrder ==
  Returned =>
    LET c == ret.calls
        n == Len(losses)
    IN  /\ Len(c) = DecAt + 1 + 2 * n + 2
        /\ c[1].stage = "preprocessor"
        /\ c[1].arg = [features |-> ret.args.features,
                       is_training |-> ret.args.is_training]
        /\ encoder # None =>
             (c[2].stage = "encoder" /\ c[2].arg = c[1].res)
        /\ c[DecAt].stage = "decoder"
        /\ c[DecAt].arg = c[DecAt - 1].res
        /\ c[DecAt + 1].stage = "processor_group"
        /\ c[DecAt + 1].arg = c[DecAt].res
        /\ c[DecAt + 1].res.v = ret.value["audio_gen"]
        /\ \A i \in 1..n :
             /\ c[DecAt + 2 * i].stage = "loss"
             /\ c[DecAt + 2 * i].arg.audio = c[DecAt + 1].res.v
             /\ c[DecAt + 2 * i].res.v =
                  LossCall(losses[i], ret.args.features.audio, c[DecAt + 1].res.v)
             /\ c[DecAt + 2 * i + 1].stage = "add_tb_metric"
             /\ c[DecAt + 2 * i + 1].arg.name = LossName(losses[i])
        /\ c[Len(c) - 1].stage = "add_tb_metric"
        /\ c[Len(c) - 1].arg.name = "loss"
        /\ c[Len(c)].stage = "add_tb_metric"
        /\ c[Len(c)].arg.name = "global_step"

\* C9's case: a call that returned on a Model with an encoder and two losses.
C9_Witness ==
  /\ Returned
  /\ encoder # None
  /\ Len(losses) = 2
  /\ Len(ret.calls) = 10

\* The names get_outputs registers metrics under.
MetricKeys == {LossName(losses[i]) : i \in 1..Len(losses)} \cup {"loss", "global_step"}

Elems(q) == { q[i] : i \in 1..Len(q) }

\* The pretrained models some configured loss refers to.
Referenced == { losses[i].pretrained_model : i \in 1..Len(losses) } \ {None}

\* C3: get_variables_to_optimize returns exactly the variables of the global
\* registry that belong to no pretrained model of a configured loss: none that
\* belongs to one, and every one that does not, whatever its name.
C3_ExactlyNotPretrained ==
  ret.op = "get_variables_to_optimize" =>
    Elems(ret.value) =
      { x \in Elems(all_trainables) : \A m \in Referenced : ~BelongsTo(x, m) }

\* C6: restore fails with CheckpointNotFoundError, loading nothing, when the
\* expanded directory holds no checkpoint; otherwise it loads, from the most
\* recent checkpoint, exactly the variables get_variables_to_optimize returns
\* and leaves the others untouched.
C6_Restore ==
  [][ret'.op = "restore" =>
       LET checkpoint ==
             LatestCheckpoint(ExpandUser(ExpandVars(ret'.args.checkpoint_dir)))
           optimized == { x.id : x \in Elems(GetVariablesToOptimize(Self, all_trainables)) }
       IN  IF checkpoint = NoCheckpoint
           THEN ret'.err = "CheckpointNotFoundError" /\ params' = params
           ELSE /\ ret'.err = None
                /\ \A v \in DOMAIN params :
                     params'[v] = IF v \in optimized THEN checkpoint ELSE params[v]]_vars

\* C8: once the scaffold_fn has been invoked, however often, every pretrained
\* model a loss refers to has been loaded exactly once and no other has been
\* loaded.
C8_LoadedOnce ==
  ret.op = "scaffold_fn" =>
    \A m \in PretrainedModels : loads[m] = IF m \in Referenced THEN 1 ELSE 0

(***************************************************************************)
(* Properties of Additive.get_controls, under SpecControls.                *)
(***************************************************************************)
\* The scaled and bandlimited distribution at position p, harmonic k, from the
\* arguments of the call.
ScaledEntry(p, k) ==
  IF synth.amp_scale_fn = None THEN nn_out.harmonic_distribution[p][k]
  ELSE ExpSigmoid(nn_out.harmonic_distribution[p][k])

AboveNyquist(p, k) == 2 * (k * nn_out.f0_hz[p]) > synth.sample_rate

SurvivingEntry(p, k) ==
  IF synth.normalize_below_nyquist /\ AboveNyquist(p, k) THEN 0 ELSE ScaledEntry(p, k)

RECURSIVE SurvivingSum(_, _)
SurvivingSum(p, k) ==
  IF k = 0 THEN 0 ELSE SurvivingSum(p, k - 1) + SurvivingEntry(p, k)

\* The float sum of the first k entries of the returned distribution at p.
RECURSIVE ReturnedSum(_, _)
ReturnedSum(p, k) ==
  IF k = 0 THEN Frac(0, 1)
  ELSE FAdd(ReturnedSum(p, k - 1), controls.harmonic_distribution[p][k])

\* C4: with normalize_below_nyquist set, at a position where every harmonic
\* k * f0_hz exceeds half the sample rate, the returned harmonic_distribution
\* is a defined number, not the result of 0/0.
C4_NoZeroDivision ==
  (nn_out.called /\ synth.normalize_below_nyquist) =>
    \A p \in Frames :
      (\A k \in 1..NHarm : AboveNyquist(p, k)) =>
        \A k \in 1..NHarm : IsFinite(controls.harmonic_distribution[p][k])

\* C5: at every position where the scaled, bandlimited distribution has a
\* non-zero sum, the returned harmonic_distribution is that distribution
\* divided by the position's sum, entry by entry, and sums to 1; 'amplitudes'
\* is the scaled amplitude argument and 'f0_hz' the argument itself.
C5_Normalized ==
  nn_out.called =>
    /\ \A p \in Frames :
         SurvivingSum(p, NHarm) # 0 =>
           /\ ReturnedSum(p, NHarm) = Frac(1, 1)
           /\ \A k \in 1..NHarm :
                controls.harmonic_distribution[p][k] =
                  FDiv(SurvivingEntry(p, k), SurvivingSum(p, NHarm))
    /\ \A p \in Frames :
         controls.amplitudes[p] =
           IF synth.amp_scale_fn = None THEN nn_out.amplitudes[p]
           ELSE ExpSigmoid(nn_out.amplitudes[p])
    /\ controls.f0_hz = nn_out.f0_hz

\* C5's case: a position where bandlimiting removed a harmonic and left
\* another, and the returned distribution sums to 1 there.
C5_Witness ==
  /\ nn_out.called
  /\ synth.normalize_below_nyquist
  /\ \E p \in Frames :
       /\ \E k \in 1..NHarm : AboveNyquist(p, k) /\ ScaledEntry(p, k) # 0
       /\ SurvivingSum(p, NHarm) # 0
       /\ ReturnedSum(p, NHarm) = Frac(1, 1)

====
